---- MODULE Spec2Model ----
(***************************************************************************)
(* Token ledger, request gate, Stripe webhook reconciler and free-tier     *)
(* renewal sweep of the AI SaaS platform.                                  *)
(*                                                                         *)
(* One SQL statement (one `await db.execute`) is one atomic step; the      *)
(* handlers are asynchronous functions whose steps interleave freely       *)
(* between two awaits.                                                     *)
(***************************************************************************)
EXTENDS Integers, Sequences, FiniteSets, TLC

(* ------------------------------ bounds --------------------------------- *)
NumUsers == 2
NumKeys == 3
NumReqs == 2
NumHooks == 2
NumSweeps == 2
MaxInitTokens == 2
MaxDay == 1
MaxRevokes == 2
\* the webhook deliveries and the sweep runs that run beside the requests
LedgerHooks == 1
LedgerSweeps == 1
\* the requests that run beside the revocations
KeysReqs == 1
\* the requests that run beside the renewal sweeps alone
SweepReqs == 1
\* the runs of the add-tokens script
NumAdminRuns == 1
\* the requests of the email verification link
NumVerifs == 2

(* ------------------------- program constants --------------------------- *)
BaselineGrant == 20
RenewalDays == 30
Tier1Tokens == 200
Tier2Tokens == 1000
TokensToAdd == 1000
SignupGrant == 20
\* the statements of initializeDatabase: three tables and four indexes
SchemaStatements == 7

NULL == "null"

Users == 1..NumUsers
KeyIds == 1..NumKeys
Reqs == 1..NumReqs
Hooks == 1..NumHooks
Sweeps == 1..NumSweeps
AdminRuns == 1..NumAdminRuns
Verifs == 1..NumVerifs

\* SUBSCRIPTION_TIERS: tier key -> monthly token grant
FlatTiers ==
  [tier1 |-> [tokens |-> Tier1Tokens, priceId |-> "price_tier1"],
   tier2 |-> [tokens |-> Tier1Tokens, priceId |-> "price_tier2"]]

SUBSCRIPTION_TIERS ==
  [tier1 |-> [tokens |-> Tier1Tokens, priceId |-> "price_tier1"],
   tier2 |-> [tokens |-> Tier2Tokens, priceId |-> "price_tier2"]]
TierKeys == DOMAIN SUBSCRIPTION_TIERS

\* Stripe's opaque references of the customer and the subscription of a user
CustomerIds == <<"cus_1", "cus_2", "cus_3", "cus_4">>
SubscriptionIds == <<"sub_1", "sub_2", "sub_3", "sub_4">>

\* api_keys.user_id of the keys the users have created
KeyOwner(k) == ((k - 1) % NumUsers) + 1

\* the raw credentials a caller may present: the raw key of each stored
\* credential, one well-formed key that was never issued, or no key at all
NoKey == <<>>
UnknownKey == <<"sk", 0>>
RawKey(k) == <<"sk", k>>
hashApiKey(apiKey) == <<"sha256", apiKey>>

VARIABLES users, keys, usage, reqs, hooks, sweeps, now, lastRevoke, opening,
          admin, verifs, emails, schema

vars == <<users, keys, usage, reqs, hooks, sweeps, now, lastRevoke, opening, admin, verifs, emails, schema>>

(* --------------------------- database helpers -------------------------- *)
\* every helper returns the tables after the statement and rowsAffected

updateUserSubscriptionTierOnly(us, tier, customerId, subscriptionId, status, userId) ==
  [rows |-> [us EXCEPT ![userId] = [@ EXCEPT !.subscription_tier = tier,
                                             !.subscription_status = status]],
   rowsAffected |-> 1]

updateUserSubscription(us, tier, customerId, subscriptionId, status, userId) ==
  IF userId \in DOMAIN us
    THEN [rows |-> [us EXCEPT ![userId] =
                      [@ EXCEPT !.subscription_tier = tier,
                                !.stripe_customer_id = customerId,
                                !.stripe_subscription_id = subscriptionId,
                                !.subscription_status = status]],
          rowsAffected |-> 1]
    ELSE [rows |-> us, rowsAffected |-> 0]

updateUserTokens(us, tokens, id) ==
  IF id \in DOMAIN us
    THEN [rows |-> [us EXCEPT ![id].tokens = tokens], rowsAffected |-> 1]
    ELSE [rows |-> us, rowsAffected |-> 0]

addTokensToUserProrated(us, tokens, id) ==
  [rows |-> [us EXCEPT ![id].tokens = @ + (tokens \div 2)], rowsAffected |-> 1]

addTokensToUser(us, tokens, id) ==
  IF id \in DOMAIN us
    THEN [rows |-> [us EXCEPT ![id].tokens = @ + tokens], rowsAffected |-> 1]
    ELSE [rows |-> us, rowsAffected |-> 0]

deductTokenUnguarded(us, id) ==
  [rows |-> [us EXCEPT ![id].tokens = @ - 1], rowsAffected |-> 1]

deductToken(us, id) ==
  IF id \in DOMAIN us /\ us[id].tokens > 0
    THEN [rows |-> [us EXCEPT ![id].tokens = @ - 1], rowsAffected |-> 1]
    ELSE [rows |-> us, rowsAffected |-> 0]

resetUserTokensAnyTier(us, id, t) ==
  [rows |-> [us EXCEPT ![id] = [@ EXCEPT !.tokens = BaselineGrant,
                                          !.last_token_reset = t]],
   rowsAffected |-> 1]

resetUserTokens(us, id, t) ==
  IF id \in DOMAIN us /\ us[id].subscription_tier = "free"
    THEN [rows |-> [us EXCEPT ![id] = [@ EXCEPT !.tokens = BaselineGrant,
                                                !.last_token_reset = t]],
          rowsAffected |-> 1]
    ELSE [rows |-> us, rowsAffected |-> 0]

getUsersNeedingTokenResetAnyAge(us, t) ==
  SelectSeq([u \in 1..Len(us) |-> u], LAMBDA u : us[u].subscription_tier = "free")

\* ids of the rows selected, in rowid order
getUsersNeedingTokenReset(us, t) ==
  LET sel == {u \in DOMAIN us : /\ us[u].subscription_tier = "free"
                                /\ us[u].last_token_reset + RenewalDays <= t}
      RECURSIVE asc(_)
      asc(S) == IF S = {} THEN <<>>
                ELSE LET m == CHOOSE x \in S : \A y \in S : x <= y
                     IN <<m>> \o asc(S \ {m})
  IN asc(sel)

\* the joined row of an active credential, or the empty set of rows
\* the lookup without its is_active = 1 condition
getApiKeyByHashAnyState(ks, us, keyHash) ==
  {[id |-> k, user_id |-> ks[k].user_id, tokens |-> us[ks[k].user_id].tokens,
    subscription_tier |-> us[ks[k].user_id].subscription_tier,
    subscription_status |-> us[ks[k].user_id].subscription_status] :
     k \in {j \in DOMAIN ks : ks[j].key_hash = keyHash}}

getApiKeyByHash(ks, us, keyHash) ==
  {[id |-> k, user_id |-> ks[k].user_id, tokens |-> us[ks[k].user_id].tokens,
    subscription_tier |-> us[ks[k].user_id].subscription_tier,
    subscription_status |-> us[ks[k].user_id].subscription_status] :
     k \in {j \in DOMAIN ks : ks[j].key_hash = keyHash /\ ks[j].is_active = 1}}

deactivateApiKeyAnyOwner(ks, id, userId) ==
  IF id \in DOMAIN ks
    THEN [rows |-> [ks EXCEPT ![id].is_active = 0], rowsAffected |-> 1]
    ELSE [rows |-> ks, rowsAffected |-> 0]

deactivateApiKey(ks, id, userId) ==
  IF id \in DOMAIN ks /\ ks[id].user_id = userId
    THEN [rows |-> [ks EXCEPT ![id].is_active = 0], rowsAffected |-> 1]
    ELSE [rows |-> ks, rowsAffected |-> 0]

updateApiKeyLastUsed(ks, id, t) ==
  IF id \in DOMAIN ks
    THEN [rows |-> [ks EXCEPT ![id].last_used_at = t], rowsAffected |-> 1]
    ELSE [rows |-> ks, rowsAffected |-> 0]

logApiUsage(log, userId, apiKeyId, endpoint, tokensUsed) ==
  Append(log, [user_id |-> userId, api_key_id |-> apiKeyId,
               endpoint |-> endpoint, tokens_used |-> tokensUsed])

getUserByVerificationToken(ems, token) ==
  {[id |-> u, email_verified |-> ems[u].email_verified,
    verification_token_expires |-> ems[u].verification_token_expires] :
     u \in {j \in DOMAIN ems : ems[j].verification_token = token}}

verifyEmail(ems, id) ==
  IF id \in DOMAIN ems
    THEN [rows |-> [ems EXCEPT ![id] = [@ EXCEPT !.email_verified = 1,
                                                 !.verification_token = <<>>]],
          rowsAffected |-> 1]
    ELSE [rows |-> ems, rowsAffected |-> 0]

(* ------------------------------ initial state -------------------------- *)
\* a row of users as the registration flow and earlier billing leave it
FreeRow(n, t) ==
  [tokens |-> n, subscription_tier |-> "free", stripe_customer_id |-> NULL,
   stripe_subscription_id |-> NULL, subscription_status |-> NULL,
   last_token_reset |-> t]

PaidRow(u, n, tier, status) ==
  [tokens |-> n, subscription_tier |-> tier,
   stripe_customer_id |-> CustomerIds[u],
   stripe_subscription_id |-> SubscriptionIds[u],
   subscription_status |-> status, last_token_reset |-> 0]

IdleReq == [pc |-> "idle", apiKey |-> NoKey, image |-> FALSE,
            key_id |-> 0, user_id |-> 0, tokens |-> 0, warning |-> FALSE,
            debited |-> FALSE, status |-> 0, tokens_remaining |-> {}]

NoEvent == [type |-> NULL, userId |-> 0, tier |-> NULL, priceId |-> NULL,
            status |-> NULL, customer |-> NULL, subscription |-> NULL]

\* pre is the row of the event's account when the delivery arrived, where the
\* deliveries are observed
IdleHook == [pc |-> "idle", ev |-> NoEvent, eid |-> 0, sigValid |-> FALSE,
             redelivery |-> FALSE, pre |-> FreeRow(0, 0), user_tier |-> NULL,
             credited |-> 0, status |-> 0]

IdleSweep == [pc |-> "idle", selected |-> <<>>, todo |-> <<>>, successCount |-> 0]

NoRevoke == [n |-> 0, keyId |-> 0, userId |-> 0, status |-> 0]

\* a run of add_tokens.js: the balance it read, once it has
IdleAdmin == [pc |-> "idle", tokens |-> 0]

\* the email columns of a users row: a verified account, and one that
\* registered on day t and holds the token of the link mailed to it, good
\* for 24 hours.  A null token is the empty tuple, verification_token_expires
\* is the set of its values: empty when null.
VerifiedEmail ==
  [email_verified |-> 1, verification_token |-> <<>>,
   verification_token_expires |-> {}]

PendingEmail(u, t) ==
  [email_verified |-> 0, verification_token |-> <<"vt", u>>,
   verification_token_expires |-> {t + 1}]

\* a request of the verification link: the user row it found, what it added
IdleVerif == [pc |-> "idle", user_id |-> 0, credited |-> 0]

\* the schema once initializeDatabase has run to its end
SchemaReady == [fresh |-> FALSE, done |-> SchemaStatements]

InitKeys ==
  keys = [k \in KeyIds |->
            [user_id |-> KeyOwner(k), key_hash |-> hashApiKey(RawKey(k)),
             is_active |-> 1, last_used_at |-> NULL]]

\* no request, delivery, sweep or script run has started
InitProcesses ==
  /\ InitKeys
  /\ usage = <<>>
  /\ reqs = [r \in Reqs |-> IdleReq]
  /\ hooks = [h \in Hooks |-> IdleHook]
  /\ sweeps = [s \in Sweeps |-> IdleSweep]
  /\ now = 0
  /\ lastRevoke = NoRevoke
  /\ opening = [u \in Users |-> users[u].tokens]
  /\ admin = [a \in AdminRuns |-> IdleAdmin]
  /\ verifs = [v \in Verifs |-> IdleVerif]

\* ... on an initialised database whose accounts are verified
InitRest ==
  /\ InitProcesses
  /\ emails = [u \in Users |-> VerifiedEmail]
  /\ schema = SchemaReady

(* ------------------------------ request gate --------------------------- *)
\* the response of a request that ends here; tokens_remaining is the set of
\* values of that field or header in the response (empty when it has none)
Respond(r, code, remaining) ==
  [reqs[r] EXCEPT !.pc = "done", !.status = code, !.tokens_remaining = {remaining}]

\* a middleware that turns away the accounts whose subscription is canceled
\* or past due
AuthenticateInGoodStanding(r, apiKey, image) ==
  /\ reqs[r].pc = "idle"
  /\ \A q \in Reqs : q < r => reqs[q].pc # "idle"
  /\ LET found == getApiKeyByHash(keys, users, hashApiKey(apiKey))
         req == [reqs[r] EXCEPT !.apiKey = apiKey, !.image = image]
     IN reqs' = [reqs EXCEPT ![r] =
          IF apiKey = NoKey \/ found = {}
            THEN [req EXCEPT !.pc = "done", !.status = 401]
          ELSE LET keyData == CHOOSE row \in found : TRUE
               IN IF keyData.tokens <= 0
                    \/ keyData.subscription_status \in {"canceled", "past_due"}
                    THEN [req EXCEPT !.pc = "done", !.status = 402,
                                     !.tokens_remaining = {0}]
                    ELSE [req EXCEPT !.pc = "authed",
                                     !.key_id = keyData.id,
                                     !.user_id = keyData.user_id,
                                     !.tokens = keyData.tokens,
                                     !.warning = FALSE]]
  /\ UNCHANGED <<users, keys, usage, hooks, sweeps, now, lastRevoke, opening, admin, verifs, emails, schema>>

\* authenticateApiKey: resolve the presented credential and pre-check the
\* balance of the snapshot
Authenticate(r, apiKey, image) ==
  /\ reqs[r].pc = "idle"
  /\ \A q \in Reqs : q < r => reqs[q].pc # "idle"
  /\ LET found == getApiKeyByHash(keys, users, hashApiKey(apiKey))
         req == [reqs[r] EXCEPT !.apiKey = apiKey, !.image = image]
     IN reqs' = [reqs EXCEPT ![r] =
          IF apiKey = NoKey \/ found = {}
            THEN [req EXCEPT !.pc = "done", !.status = 401]
          ELSE LET keyData == CHOOSE row \in found : TRUE
               IN IF keyData.tokens <= 0
                    THEN [req EXCEPT !.pc = "done", !.status = 402,
                                     !.tokens_remaining = {0}]
                    ELSE [req EXCEPT !.pc = "authed",
                                     !.key_id = keyData.id,
                                     !.user_id = keyData.user_id,
                                     !.tokens = keyData.tokens,
                                     !.warning = keyData.subscription_status
                                                   \in {"canceled", "past_due"}]]
  /\ UNCHANGED <<users, keys, usage, hooks, sweeps, now, lastRevoke, opening, admin, verifs, emails, schema>>

\* the endpoint without the rowsAffected test: it goes on to the backend
\* whatever the debit did
DeductThenCallAnyway(r) ==
  /\ reqs[r].pc = "authed"
  /\ IF ~reqs[r].image
       THEN /\ reqs' = [reqs EXCEPT ![r] = [@ EXCEPT !.pc = "done", !.status = 400]]
            /\ users' = users
       ELSE LET deductResult == deductToken(users, reqs[r].user_id)
            IN /\ users' = deductResult.rows
               /\ reqs' = [reqs EXCEPT ![r] =
                    [@ EXCEPT !.pc = "calling",
                              !.debited = deductResult.rowsAffected # 0]]
  /\ UNCHANGED <<keys, usage, hooks, sweeps, now, lastRevoke, opening, admin, verifs, emails, schema>>

\* POST /v1/live-painting up to the call of the backend: validate the upload,
\* then deduct the token
Deduct(r) ==
  /\ reqs[r].pc = "authed"
  /\ IF ~reqs[r].image
       THEN /\ reqs' = [reqs EXCEPT ![r] = [@ EXCEPT !.pc = "done", !.status = 400]]
            /\ users' = users
       ELSE LET deductResult == deductToken(users, reqs[r].user_id)
            IN /\ users' = deductResult.rows
               /\ reqs' = [reqs EXCEPT ![r] =
                    IF deductResult.rowsAffected = 0
                      THEN Respond(r, 402, 0)
                      ELSE [@ EXCEPT !.pc = "calling", !.debited = TRUE]]
  /\ UNCHANGED <<keys, usage, hooks, sweeps, now, lastRevoke, opening, admin, verifs, emails, schema>>

\* the backend answered with an image
DownstreamOk(r) ==
  /\ reqs[r].pc = "calling"
  /\ reqs' = [reqs EXCEPT ![r].pc = "lastused"]
  /\ UNCHANGED <<users, keys, usage, hooks, sweeps, now, lastRevoke, opening, admin, verifs, emails, schema>>

refundOnFailure(us, id) == addTokensToUser(us, 1, id).rows

\* what the catch block of the endpoint does to the ledger
onProcessingError(us, id) == us

\* the backend failed or timed out: the catch block answers 500
DownstreamFail(r) ==
  /\ reqs[r].pc = "calling"
  /\ users' = onProcessingError(users, reqs[r].user_id)
  /\ reqs' = [reqs EXCEPT ![r] = [@ EXCEPT !.pc = "done", !.status = 500]]
  /\ UNCHANGED <<keys, usage, hooks, sweeps, now, lastRevoke, opening, admin, verifs, emails, schema>>

UpdateLastUsed(r) ==
  /\ reqs[r].pc = "lastused"
  /\ keys' = updateApiKeyLastUsed(keys, reqs[r].key_id, now).rows
  /\ reqs' = [reqs EXCEPT ![r].pc = "logging"]
  /\ UNCHANGED <<users, usage, hooks, sweeps, now, lastRevoke, opening, admin, verifs, emails, schema>>

\* log the usage and send the image with the X-Tokens-Remaining header
LogUsage(r) ==
  /\ reqs[r].pc = "logging"
  /\ usage' = logApiUsage(usage, reqs[r].user_id, reqs[r].key_id,
                          "/api/v1/live-painting", 1)
  /\ reqs' = [reqs EXCEPT ![r] = Respond(r, 200, reqs[r].tokens - 1)]
  /\ UNCHANGED <<users, keys, hooks, sweeps, now, lastRevoke, opening, admin, verifs, emails, schema>>

\* updateApiKeyLastUsed rejects (the database is unreachable): the await
\* throws into the catch block, which answers 500
UpdateLastUsedFail(r) ==
  /\ reqs[r].pc = "lastused"
  /\ users' = onProcessingError(users, reqs[r].user_id)
  /\ reqs' = [reqs EXCEPT ![r] = [@ EXCEPT !.pc = "done", !.status = 500]]
  /\ UNCHANGED <<keys, usage, hooks, sweeps, now, lastRevoke, opening, admin, verifs, emails, schema>>

\* logApiUsage rejects: the same catch block
LogUsageFail(r) ==
  /\ reqs[r].pc = "logging"
  /\ users' = onProcessingError(users, reqs[r].user_id)
  /\ reqs' = [reqs EXCEPT ![r] = [@ EXCEPT !.pc = "done", !.status = 500]]
  /\ UNCHANGED <<keys, usage, hooks, sweeps, now, lastRevoke, opening, admin, verifs, emails, schema>>

\* DELETE /apikey/:keyId by the logged-in user userId; lastRevoke is the
\* latest such request with its answer, n the number of them so far
Revoke(keyId, userId) ==
  /\ lastRevoke.n < MaxRevokes
  /\ LET result == deactivateApiKey(keys, keyId, userId)
     IN /\ keys' = result.rows
        /\ lastRevoke' = [n |-> lastRevoke.n + 1, keyId |-> keyId, userId |-> userId,
                          status |-> IF result.rowsAffected = 0 THEN 404 ELSE 200]
  /\ UNCHANGED <<users, usage, reqs, hooks, sweeps, now, opening, admin, verifs, emails, schema>>

Credentials == {RawKey(k) : k \in KeyIds} \cup {UnknownKey, NoKey}

(* ------------------------- Stripe webhook events ----------------------- *)
\* The events Stripe can emit about user u.  A checkout session carries the
\* tier of its metadata (any string) and the retrieved subscription's status;
\* a subscription event carries the price of its first item and its status.
CheckoutEvents(u) ==
  {[type |-> "checkout.session.completed", userId |-> u, tier |-> t,
    priceId |-> NULL, status |-> "active", customer |-> CustomerIds[u],
    subscription |-> SubscriptionIds[u]] : t \in TierKeys \cup {"enterprise"}}

UpdatedEvents(u) ==
  {[type |-> "customer.subscription.updated", userId |-> u, tier |-> NULL,
    priceId |-> p, status |-> st, customer |-> CustomerIds[u],
    subscription |-> SubscriptionIds[u]] :
      p \in {"price_tier1", "price_tier2", "price_other"},
      st \in {"active", "past_due"}}

OtherEvents(u) ==
  {[type |-> ty, userId |-> u, tier |-> NULL, priceId |-> NULL, status |-> NULL,
    customer |-> CustomerIds[u], subscription |-> SubscriptionIds[u]] :
      ty \in {"customer.subscription.deleted", "invoice.payment_succeeded",
              "invoice.payment_failed"}}

Events == UNION {CheckoutEvents(u) \cup UpdatedEvents(u) \cup OtherEvents(u) : u \in Users}

\* stripe.webhooks.constructEvent: TRUE when the signature over the raw body
\* verifies against the webhook secret, FALSE when it throws
constructEventUnverified(sigValid) == TRUE

constructEvent(sigValid) == sigValid

\* the loop over Object.entries(SUBSCRIPTION_TIERS): the first tier whose
\* priceId is the subscription's price, or null
newTierOf(priceId) ==
  IF \E t \in TierKeys : SUBSCRIPTION_TIERS[t].priceId = priceId
    THEN CHOOSE t \in TierKeys : SUBSCRIPTION_TIERS[t].priceId = priceId
    ELSE NULL

FirstPcDegrading(type) ==
  CASE type = "checkout.session.completed" -> "co_update"
    [] type = "customer.subscription.updated" -> "su_read"
    [] type = "customer.subscription.deleted" -> "sd_update"
    [] type = "invoice.payment_succeeded" -> "ip_read"
    [] type = "invoice.payment_failed" -> "sd_update"
    [] OTHER -> "done"

\* the handler's first step after the switch on event.type
FirstPc(type) ==
  CASE type = "checkout.session.completed" -> "co_update"
    [] type = "customer.subscription.updated" -> "su_read"
    [] type = "customer.subscription.deleted" -> "sd_update"
    [] type = "invoice.payment_succeeded" -> "ip_read"
    [] OTHER -> "done"

\* POST /webhook receives delivery h of event e (event id eid) and verifies
\* it; pre is what the observer notes of the account at that moment
Accept(h, e, eid, sigValid, pre) ==
  /\ hooks[h].pc = "idle"
  /\ \A g \in Hooks : g < h => hooks[g].pc # "idle"
  /\ hooks' = [hooks EXCEPT ![h] =
       [@ EXCEPT !.ev = e, !.eid = eid, !.sigValid = sigValid,
                 !.pre = pre,
                 !.redelivery = \E g \in Hooks : /\ hooks[g].eid = eid
                                                 /\ hooks[g].pc = "done"
                                                 /\ hooks[g].status = 200,
                 !.pc = IF constructEvent(sigValid) THEN FirstPc(e.type) ELSE "done",
                 !.status = IF ~constructEvent(sigValid) THEN 400
                            ELSE IF FirstPc(e.type) = "done" THEN 200 ELSE 0]]
  /\ UNCHANGED <<users, keys, usage, reqs, sweeps, now, lastRevoke, opening, admin, verifs, emails, schema>>

\* the first delivery of a new event
Deliver(h, e, sigValid) == Accept(h, e, h, sigValid, IdleHook.pre)

\* the same, the account's row noted
DeliverObserved(h, e, sigValid) == Accept(h, e, h, sigValid, users[e.userId])

\* Stripe delivers again the event whose delivery g was (at-least-once)
Redeliver(h, g) ==
  /\ hooks[g].pc # "idle"
  /\ Accept(h, hooks[g].ev, hooks[g].eid, hooks[g].sigValid,
            users[hooks[g].ev.userId])

HookDone(h, code) == [hooks[h] EXCEPT !.pc = "done", !.status = code]

\* case 'checkout.session.completed': updateUserSubscription
CheckoutUpdate(h) ==
  /\ hooks[h].pc = "co_update"
  /\ LET e == hooks[h].ev
     IN users' = updateUserSubscription(users, e.tier, e.customer, e.subscription,
                                        e.status, e.userId).rows
  /\ hooks' = [hooks EXCEPT ![h].pc = "co_add"]
  /\ UNCHANGED <<keys, usage, reqs, sweeps, now, lastRevoke, opening, admin, verifs, emails, schema>>

\* ... then addTokensToUser(tierInfo.tokens); tierInfo is undefined for a tier
\* that SUBSCRIPTION_TIERS does not have, and reading its tokens throws
CheckoutAdd(h) ==
  /\ hooks[h].pc = "co_add"
  /\ LET e == hooks[h].ev
     IN IF e.tier \in TierKeys
          THEN /\ users' = addTokensToUser(users, SUBSCRIPTION_TIERS[e.tier].tokens,
                                           e.userId).rows
               /\ hooks' = [hooks EXCEPT ![h] =
                    [HookDone(h, 200) EXCEPT !.credited = SUBSCRIPTION_TIERS[e.tier].tokens]]
          ELSE /\ users' = users
               /\ hooks' = [hooks EXCEPT ![h] = HookDone(h, 500)]
  /\ UNCHANGED <<keys, usage, reqs, sweeps, now, lastRevoke, opening, admin, verifs, emails, schema>>

SubUpdatedReadAnyTier(h) ==
  /\ hooks[h].pc = "su_read"
  /\ hooks' = [hooks EXCEPT ![h] =
       [@ EXCEPT !.user_tier = users[hooks[h].ev.userId].subscription_tier,
                 !.pc = IF newTierOf(hooks[h].ev.priceId) # NULL
                          THEN "su_upgrade" ELSE "su_status"]]
  /\ UNCHANGED <<users, keys, usage, reqs, sweeps, now, lastRevoke, opening, admin, verifs, emails, schema>>

\* case 'customer.subscription.updated': getUserById and the branch on it
SubUpdatedRead(h) ==
  /\ hooks[h].pc = "su_read"
  /\ LET e == hooks[h].ev
         newTier == newTierOf(e.priceId)
         tier == users[e.userId].subscription_tier
     IN hooks' = [hooks EXCEPT ![h] =
          [@ EXCEPT !.user_tier = tier,
                    !.pc = IF newTier # NULL /\ newTier # tier
                             THEN "su_upgrade" ELSE "su_status"]]
  /\ UNCHANGED <<users, keys, usage, reqs, sweeps, now, lastRevoke, opening, admin, verifs, emails, schema>>

SubUpdatedUpgrade(h) ==
  /\ hooks[h].pc = "su_upgrade"
  /\ LET e == hooks[h].ev
     IN users' = updateUserSubscription(users, newTierOf(e.priceId), e.customer,
                                        e.subscription, e.status, e.userId).rows
  /\ hooks' = [hooks EXCEPT ![h].pc = "su_add"]
  /\ UNCHANGED <<keys, usage, reqs, sweeps, now, lastRevoke, opening, admin, verifs, emails, schema>>

SubUpdatedAdd(h) ==
  /\ hooks[h].pc = "su_add"
  /\ LET e == hooks[h].ev
         tierInfo == SUBSCRIPTION_TIERS[newTierOf(e.priceId)]
     IN /\ users' = addTokensToUser(users, tierInfo.tokens, e.userId).rows
        /\ hooks' = [hooks EXCEPT ![h] =
             [HookDone(h, 200) EXCEPT !.credited = tierInfo.tokens]]
  /\ UNCHANGED <<keys, usage, reqs, sweeps, now, lastRevoke, opening, admin, verifs, emails, schema>>

\* the else branch: user?.subscription_tier || newTier
SubUpdatedStatus(h) ==
  /\ hooks[h].pc = "su_status"
  /\ LET e == hooks[h].ev
         tier == IF hooks[h].user_tier # NULL THEN hooks[h].user_tier
                 ELSE newTierOf(e.priceId)
     IN users' = updateUserSubscription(users, tier, e.customer, e.subscription,
                                        e.status, e.userId).rows
  /\ hooks' = [hooks EXCEPT ![h] = HookDone(h, 200)]
  /\ UNCHANGED <<keys, usage, reqs, sweeps, now, lastRevoke, opening, admin, verifs, emails, schema>>

SubDeletedForfeit(h) ==
  /\ hooks[h].pc = "sd_update"
  /\ LET e == hooks[h].ev
         canceled == updateUserSubscription(users, NULL, e.customer, NULL,
                                            "canceled", e.userId).rows
     IN users' = [canceled EXCEPT ![e.userId].tokens = 0]
  /\ hooks' = [hooks EXCEPT ![h] = HookDone(h, 200)]
  /\ UNCHANGED <<keys, usage, reqs, sweeps, now, lastRevoke, opening, admin, verifs, emails, schema>>

\* case 'customer.subscription.deleted'
SubDeleted(h) ==
  /\ hooks[h].pc = "sd_update"
  /\ LET e == hooks[h].ev
     IN users' = updateUserSubscription(users, NULL, e.customer, NULL, "canceled",
                                        e.userId).rows
  /\ hooks' = [hooks EXCEPT ![h] = HookDone(h, 200)]
  /\ UNCHANGED <<keys, usage, reqs, sweeps, now, lastRevoke, opening, admin, verifs, emails, schema>>

\* case 'invoice.payment_succeeded': getUserById; a truthy tier that
\* SUBSCRIPTION_TIERS does not have ('free') makes tierInfo.tokens throw
InvoiceRead(h) ==
  /\ hooks[h].pc = "ip_read"
  /\ LET tier == users[hooks[h].ev.userId].subscription_tier
     IN hooks' = [hooks EXCEPT ![h] =
          IF tier = NULL THEN HookDone(h, 200)
          ELSE IF tier \notin TierKeys THEN [HookDone(h, 500) EXCEPT !.user_tier = tier]
          ELSE [@ EXCEPT !.user_tier = tier, !.pc = "ip_add"]]
  /\ UNCHANGED <<users, keys, usage, reqs, sweeps, now, lastRevoke, opening, admin, verifs, emails, schema>>

InvoiceAdd(h) ==
  /\ hooks[h].pc = "ip_add"
  /\ LET tierInfo == SUBSCRIPTION_TIERS[hooks[h].user_tier]
     IN /\ users' = addTokensToUser(users, tierInfo.tokens, hooks[h].ev.userId).rows
        /\ hooks' = [hooks EXCEPT ![h] =
             [HookDone(h, 200) EXCEPT !.credited = tierInfo.tokens]]
  /\ UNCHANGED <<keys, usage, reqs, sweeps, now, lastRevoke, opening, admin, verifs, emails, schema>>

\* the tokens the webhook handlers have credited to account u so far
RECURSIVE CreditedUpTo(_, _)
CreditedUpTo(u, n) ==
  IF n = 0 THEN 0
  ELSE CreditedUpTo(u, n - 1)
         + (IF hooks[n].ev.userId = u THEN hooks[n].credited ELSE 0)

Credited(u) == CreditedUpTo(u, NumHooks)

(* --------------------------- email verification ------------------------ *)
\* the token of a request of the link: the one mailed to user u, one that no
\* row holds, or none
VerificationToken(u) == <<"vt", u>>
NoToken == <<>>

\* GET /verify-email up to verifyEmail: find the user of the token and test
\* the expiry and the verified flag of the row found
VerifyRead(v, token) ==
  /\ verifs[v].pc = "idle"
  /\ \A w \in Verifs : w < v => verifs[w].pc # "idle"
  /\ LET found == getUserByVerificationToken(emails, token)
     IN verifs' = [verifs EXCEPT ![v] =
          IF token = NoToken \/ found = {}
            THEN [@ EXCEPT !.pc = "done"]
          ELSE LET user == CHOOSE row \in found : TRUE
               IN IF \/ \E expires \in user.verification_token_expires : expires < now
                     \/ user.email_verified = 1
                    THEN [@ EXCEPT !.pc = "done"]
                    ELSE [@ EXCEPT !.pc = "ve_verify", !.user_id = user.id]]
  /\ UNCHANGED <<users, keys, usage, reqs, hooks, sweeps, now, lastRevoke, opening,
                 admin, emails, schema>>

\* await verifyEmail(user.id)
VerifyEmail(v) ==
  /\ verifs[v].pc = "ve_verify"
  /\ emails' = verifyEmail(emails, verifs[v].user_id).rows
  /\ verifs' = [verifs EXCEPT ![v].pc = "ve_add"]
  /\ UNCHANGED <<users, keys, usage, reqs, hooks, sweeps, now, lastRevoke, opening,
                 admin, schema>>

\* await addTokensToUser(20, user.id)
VerifyAdd(v) ==
  /\ verifs[v].pc = "ve_add"
  /\ users' = addTokensToUser(users, SignupGrant, verifs[v].user_id).rows
  /\ verifs' = [verifs EXCEPT ![v] = [@ EXCEPT !.pc = "done", !.credited = SignupGrant]]
  /\ UNCHANGED <<keys, usage, reqs, hooks, sweeps, now, lastRevoke, opening,
                 admin, emails, schema>>

(* --------------------------- renewal sweep ----------------------------- *)
\* checkAndResetTokens up to the loop: select the users needing a reset
SweepSelect(s) ==
  /\ sweeps[s].pc = "idle"
  /\ \A q \in Sweeps : q < s => sweeps[q].pc # "idle"
  /\ LET selected == getUsersNeedingTokenReset(users, now)
     IN sweeps' = [sweeps EXCEPT ![s] =
          [@ EXCEPT !.selected = selected, !.todo = selected,
                    !.pc = IF Len(selected) = 0 THEN "done" ELSE "loop"]]
  /\ UNCHANGED <<users, keys, usage, reqs, hooks, now, lastRevoke, opening, admin, verifs, emails, schema>>

\* one iteration of the loop: resetUserTokens(user.id); successCount++
SweepReset(s) ==
  /\ sweeps[s].pc = "loop"
  /\ users' = resetUserTokens(users, Head(sweeps[s].todo), now).rows
  /\ sweeps' = [sweeps EXCEPT ![s] =
       [@ EXCEPT !.todo = Tail(@), !.successCount = @ + 1,
                 !.pc = IF Len(sweeps[s].todo) = 1 THEN "done" ELSE "loop"]]
  /\ UNCHANGED <<keys, usage, reqs, hooks, now, lastRevoke, opening, admin, verifs, emails, schema>>

\* a day passes (CURRENT_TIMESTAMP, in days since the process started)
Tick ==
  /\ now < MaxDay
  /\ now' = now + 1
  /\ UNCHANGED <<users, keys, usage, reqs, hooks, sweeps, lastRevoke, opening, admin, verifs, emails, schema>>

(* -------------------------- add-tokens script -------------------------- *)
\* add_tokens.js, for the account of its email (account 1): SELECT the user
AdminRead(a) ==
  /\ admin[a].pc = "idle"
  /\ \A b \in AdminRuns : b < a => admin[b].pc # "idle"
  /\ admin' = [admin EXCEPT ![a] = [pc |-> "read", tokens |-> users[1].tokens]]
  /\ UNCHANGED <<users, keys, usage, reqs, hooks, sweeps, now, lastRevoke, opening,
               verifs, emails, schema>>

\* ... then UPDATE users SET tokens = user.tokens + tokensToAdd
AdminWrite(a) ==
  /\ admin[a].pc = "read"
  /\ users' = updateUserTokens(users, admin[a].tokens + TokensToAdd, 1).rows
  /\ admin' = [admin EXCEPT ![a].pc = "done"]
  /\ UNCHANGED <<keys, usage, reqs, hooks, sweeps, now, lastRevoke, opening,
               verifs, emails, schema>>

(* --------------- the request gate on accounts of any state ------------- *)
InitGate ==
  /\ users \in [Users -> {FreeRow(n, 0) : n \in 0..MaxInitTokens}]
  /\ InitRest

NextGate ==
  \/ \E r \in Reqs, k \in KeyIds, image \in BOOLEAN : Authenticate(r, RawKey(k), image)
  \/ \E r \in Reqs : Deduct(r)
  \/ \E r \in Reqs : DownstreamOk(r)
  \/ \E r \in Reqs : DownstreamFail(r)
  \/ \E r \in Reqs : UpdateLastUsed(r)
  \/ \E r \in Reqs : LogUsage(r)

SpecGate == InitGate /\ [][NextGate]_vars

\* the requests whose deductToken affected a row of account u
Debits(u) == {r \in Reqs : reqs[r].debited /\ reqs[r].user_id = u}

\* the well-formed metered requests issued with a credential of account u
RequestsOn(u) ==
  {r \in Reqs : /\ reqs[r].pc # "idle"
                /\ reqs[r].image
                /\ \E k \in KeyIds : KeyOwner(k) = u /\ reqs[r].apiKey = RawKey(k)}

\* C1: with no credit and no reset, the number of requests on an account whose
\* debit succeeded never exceeds the account's opening balance N, and the
\* balance never goes below 0.
C1_NoOverdraft ==
  \A u \in Users : /\ Cardinality(Debits(u)) <= opening[u]
                    /\ users[u].tokens >= 0

\* an account whose N tokens were all spent by N >= 1 debits while one more
\* request, which had passed the pre-check, lost the race at its debit
C1_Witness ==
  \E u \in Users, r \in Reqs :
    /\ opening[u] >= 1
    /\ Cardinality(Debits(u)) = opening[u]
    /\ users[u].tokens = 0
    /\ reqs[r].user_id = u /\ ~reqs[r].debited
    /\ reqs[r].pc = "done" /\ reqs[r].status = 402 /\ reqs[r].tokens > 0

\* C7: an account with tokens = 1 and two metered requests: when both have
\* been answered, exactly one was debited (and reports remaining = 0 when its
\* backend call succeeded), the other was answered 402 Insufficient tokens with
\* tokens_remaining = 0, and the balance is 0.
C7_LastTokenOnce ==
  \A u \in Users :
    ( /\ opening[u] = 1
      /\ Cardinality(RequestsOn(u)) = 2
      /\ \A r \in RequestsOn(u) : reqs[r].pc = "done" )
    => /\ users[u].tokens = 0
       /\ \E r \in RequestsOn(u) :
            /\ reqs[r].debited
            /\ reqs[r].status \in {200, 500}
            /\ reqs[r].status = 200 => reqs[r].tokens_remaining = {0}
            /\ \A q \in RequestsOn(u) \ {r} :
                 /\ ~reqs[q].debited
                 /\ reqs[q].status = 402
                 /\ reqs[q].tokens_remaining = {0}

\* both requests resolved the credential while the balance was 1; one got the
\* image with remaining 0, the other was rejected when its debit affected no row
C7_Witness ==
  \E u \in Users, r, q \in Reqs :
    /\ opening[u] = 1 /\ RequestsOn(u) = {r, q} /\ r # q
    /\ reqs[r].pc = "done" /\ reqs[r].status = 200 /\ reqs[r].tokens_remaining = {0}
    /\ reqs[q].pc = "done" /\ reqs[q].status = 402 /\ reqs[q].tokens = 1
    /\ users[u].tokens = 0

\* C8: once the backend call of a debited request has failed, the account's
\* balance still carries that debit: it is the opening balance minus one per
\* debited request, the failed ones included.
C8_NoRefund ==
  \A r \in Reqs :
    (reqs[r].debited /\ reqs[r].status = 500)
    => users[reqs[r].user_id].tokens
         = opening[reqs[r].user_id] - Cardinality(Debits(reqs[r].user_id))

\* the only request on an account was debited, its backend call failed, and
\* the balance is one below the opening balance
C8_Witness ==
  \E r \in Reqs :
    /\ reqs[r].debited /\ reqs[r].status = 500
    /\ Debits(reqs[r].user_id) = {r}
    /\ users[reqs[r].user_id].tokens = opening[reqs[r].user_id] - 1

\* the usage records of the metered endpoint for credential k of its account
UsageOf(k) ==
  {i \in 1..Len(usage) :
     usage[i] = [user_id |-> KeyOwner(k), api_key_id |-> k,
                 endpoint |-> "/api/v1/live-painting", tokens_used |-> 1]}

\* C23: every debited request whose backend call has completed, with an image
\* or with a failure, has its usage record (account, credential, endpoint, 1
\* token) and has updated the last-used timestamp of its credential.
C23_UsageAlwaysRecorded ==
  \A k \in KeyIds :
    LET answered == {r \in Reqs : /\ reqs[r].debited /\ reqs[r].pc = "done"
                                  /\ reqs[r].key_id = k}
    IN /\ Cardinality(UsageOf(k)) >= Cardinality(answered)
       /\ answered # {} => keys[k].last_used_at # NULL

\* C26: the backend is called only by the step in which the same request's
\* debit took one token, and never again by that request; a request whose
\* snapshot balance is <= 0 is answered 402 with no debit attempted, and a
\* request whose debit affects no row is answered 402 with no backend call.
C26_CallOnlyAfterDebit ==
  [][\A r \in Reqs :
       /\ (reqs'[r].pc = "calling" /\ reqs[r].pc # "calling")
            => /\ reqs[r].pc = "authed" /\ ~reqs[r].debited /\ reqs'[r].debited
               /\ users'[reqs[r].user_id].tokens
                    = users[reqs[r].user_id].tokens - 1
       /\ reqs[r].debited
            => /\ reqs'[r].debited
               /\ reqs[r].pc # "calling" => reqs'[r].pc # "calling"
       /\ (reqs[r].pc = "idle" /\ reqs'[r].pc # "idle")
            => \A k \in KeyIds :
                 ( /\ reqs'[r].apiKey = RawKey(k)
                   /\ keys[k].is_active = 1
                   /\ users[keys[k].user_id].tokens <= 0 )
                 => /\ reqs'[r].pc = "done" /\ reqs'[r].status = 402
                    /\ ~reqs'[r].debited
                    /\ users' = users
       /\ (reqs[r].pc = "authed" /\ reqs'[r].pc # "authed" /\ reqs[r].image)
            => \/ reqs'[r].pc = "calling" /\ reqs'[r].debited
               \/ /\ reqs'[r].pc = "done" /\ reqs'[r].status = 402
                  /\ ~reqs'[r].debited
                  /\ users' = users
                  /\ users[reqs[r].user_id].tokens <= 0]_vars

\* one request is at the backend with its debit taken; another, which had
\* passed the pre-check on the same account, was answered 402 by a debit that
\* affected no row and has called nothing
C26_Witness ==
  \E r, q \in Reqs :
    /\ reqs[r].pc = "calling" /\ reqs[r].debited
    /\ reqs[q].pc = "done" /\ reqs[q].status = 402 /\ ~reqs[q].debited
    /\ reqs[q].user_id = reqs[r].user_id /\ reqs[q].tokens > 0

\* C28: a debit attempted while the balance of the account is 0 ends the
\* request with 402 and leaves every account as it was; every 402 response,
\* from the pre-check or from the debit, carries tokens_remaining = 0 and is
\* final.
C28_InsufficientReportsZero ==
  [][\A r \in Reqs :
       /\ ( /\ reqs[r].pc = "authed" /\ reqs[r].image
            /\ users[reqs[r].user_id].tokens = 0
            /\ reqs'[r].pc # "authed" )
            => /\ reqs'[r].pc = "done" /\ reqs'[r].status = 402
               /\ users' = users
       /\ (reqs'[r].status = 402 /\ reqs[r].status # 402)
            => /\ reqs'[r].tokens_remaining = {0}
               /\ users' = users
       /\ reqs[r].status = 402 => reqs'[r] = reqs[r]]_vars

\* an account that opened with one token: a request that had passed the
\* pre-check found the balance at 0 at its debit and was answered 402 with
\* 0 tokens remaining
C28_Witness ==
  \E r \in Reqs :
    /\ reqs[r].status = 402 /\ reqs[r].pc = "done"
    /\ reqs[r].tokens > 0 /\ reqs[r].tokens_remaining = {0}
    /\ users[reqs[r].user_id].tokens = 0
    /\ opening[reqs[r].user_id] = 1

\* C37: the tokens-remaining value a served request reports is >= 0 and is
\* the balance its own debit left.  With no credit and no reset the debits on
\* an account leave the balances N - 1, N - 2, ... in turn, so when every
\* debited request of an account opened with N tokens has been served, the
\* values they reported are exactly those, one each.
C37_RemainingIsBalanceAfterDebit ==
  \A u \in Users :
    LET served == {r \in Debits(u) : reqs[r].pc = "done" /\ reqs[r].status = 200}
    IN served = Debits(u)
       => /\ \A r \in served : \E v \in 0..opening[u] : reqs[r].tokens_remaining = {v}
          /\ UNION {reqs[r].tokens_remaining : r \in served}
               = {opening[u] - i : i \in 1..Cardinality(served)}

(* ------------- the request gate with a database that can fail --------- *)
InitUsage ==
  /\ users = [u \in Users |-> FreeRow(MaxInitTokens, 0)]
  /\ InitRest

NextUsage ==
  \/ \E r \in Reqs, k \in KeyIds : Authenticate(r, RawKey(k), TRUE)
  \/ \E r \in Reqs : Deduct(r)
  \/ \E r \in Reqs : DownstreamOk(r)
  \/ \E r \in Reqs : DownstreamFail(r)
  \/ \E r \in Reqs : UpdateLastUsed(r)
  \/ \E r \in Reqs : UpdateLastUsedFail(r)
  \/ \E r \in Reqs : LogUsage(r)
  \/ \E r \in Reqs : LogUsageFail(r)

SpecUsage == InitUsage /\ [][NextUsage]_vars

\* C22: once the backend has answered a debited request with an image, the
\* request ends with that image (200) and its debit stands, whether or not the
\* last-used update and the usage record succeed.
C22_RecordingBestEffort ==
  [][\A r \in Reqs :
       (reqs[r].pc \in {"lastused", "logging"} /\ reqs'[r].pc = "done")
       => /\ reqs'[r].status = 200
          /\ users' = users]_vars

(* ------------ credentials: the request gate and revocation ------------ *)
InitKeysSpec ==
  /\ users = [u \in Users |-> FreeRow(MaxInitTokens, 0)]
  /\ InitRest

NextKeys ==
  \/ \E r \in 1..KeysReqs, apiKey \in Credentials : Authenticate(r, apiKey, TRUE)
  \/ \E r \in Reqs : Deduct(r)
  \/ \E r \in Reqs : DownstreamOk(r)
  \/ \E r \in Reqs : DownstreamFail(r)
  \/ \E r \in Reqs : UpdateLastUsed(r)
  \/ \E r \in Reqs : LogUsage(r)
  \/ \E k \in KeyIds, u \in Users : Revoke(k, u)

SpecKeys == InitKeysSpec /\ [][NextKeys]_vars

\* the credentials that resolve, each with the account it resolves to
Resolving(ks, us) ==
  UNION {{<<k, row.user_id>> : row \in getApiKeyByHash(ks, us, hashApiKey(RawKey(k)))} :
           k \in KeyIds}

\* C10: a revoke request changes at most the active flag of the credential it
\* names: the accounts are unchanged, every other credential keeps its row and
\* resolves as before, and a request naming a credential of another account
\* changes no credential at all.
C10_RevokeFrame ==
  [][/\ (\E j \in KeyIds : keys'[j].is_active # keys[j].is_active)
          => lastRevoke'.n # lastRevoke.n
     /\ lastRevoke'.n # lastRevoke.n
       => LET k == lastRevoke'.keyId
              u == lastRevoke'.userId
          IN /\ users' = users
             /\ \A j \in KeyIds \ {k} : keys'[j] = keys[j]
             /\ keys'[k] = [keys[k] EXCEPT !.is_active = keys'[k].is_active]
             /\ Resolving(keys', users') \cup {<<k, keys[k].user_id>>}
                  = Resolving(keys, users) \cup {<<k, keys[k].user_id>>}
             /\ keys[k].user_id # u => (keys' = keys /\ lastRevoke'.status = 404)
             /\ keys[k].user_id = u => keys'[k].is_active = 0]_vars

\* a credential was revoked by its owner; the owner's other credential is
\* active and a request presenting it afterwards was served
C10_Witness ==
  \E k, j \in KeyIds, r \in Reqs :
    /\ k # j /\ KeyOwner(k) = KeyOwner(j)
    /\ lastRevoke.keyId = k /\ lastRevoke.userId = KeyOwner(k)
    /\ lastRevoke.status = 200
    /\ keys[k].is_active = 0 /\ keys[j].is_active = 1
    /\ reqs[r].apiKey = RawKey(j) /\ reqs[r].status = 200
    /\ users[KeyOwner(k)].tokens = opening[KeyOwner(k)] - 1

\* the credential presented resolves: it is the raw key of a row whose active
\* flag is set
Active(ks, apiKey) == \E k \in KeyIds : apiKey = RawKey(k) /\ ks[k].is_active = 1

\* C27: a request presenting no credential, an unknown one or a revoked one
\* is answered 401 in the step that examines it, with no account changed, and
\* stays answered: it never debits and never reaches the backend; a request
\* that goes past authentication presented a credential whose active flag is
\* set, and acts on the account of that credential.
C27_BadCredentialRejected ==
  [][\A r \in Reqs :
       /\ (reqs[r].pc = "idle" /\ reqs'[r].pc # "idle")
            => /\ ~Active(keys, reqs'[r].apiKey)
                    => /\ reqs'[r].pc = "done" /\ reqs'[r].status = 401
                       /\ ~reqs'[r].debited
                       /\ users' = users
               /\ reqs'[r].status # 401 => Active(keys, reqs'[r].apiKey)
               /\ reqs'[r].pc = "authed"
                    => /\ reqs'[r].apiKey = RawKey(reqs'[r].key_id)
                       /\ keys[reqs'[r].key_id].is_active = 1
                       /\ reqs'[r].user_id = keys[reqs'[r].key_id].user_id
       /\ reqs[r].status = 401 => reqs'[r] = reqs[r]]_vars

\* a credential was revoked by its owner and the request that presented it
\* afterwards was answered 401 with the balance of the account untouched
C27_Witness ==
  \E r \in Reqs, k \in KeyIds :
    /\ keys[k].is_active = 0
    /\ reqs[r].apiKey = RawKey(k)
    /\ reqs[r].pc = "done" /\ reqs[r].status = 401 /\ ~reqs[r].debited
    /\ users[keys[k].user_id].tokens = opening[keys[k].user_id]

(* ------------------ the reconciler on accounts of any tier ------------- *)
\* Account 1, the one the events are about, is a free one or one that
\* subscribed to a tier earlier; the other accounts are free.
InitHooks ==
  /\ users \in [Users -> {FreeRow(MaxInitTokens, 0)}
                   \cup {PaidRow(1, MaxInitTokens, t, "active") : t \in TierKeys}]
  /\ \A u \in Users \ {1} : users[u] = FreeRow(MaxInitTokens, 0)
  /\ InitRest

HookEvents == CheckoutEvents(1) \cup UpdatedEvents(1) \cup OtherEvents(1)

NextHooks ==
  \/ \E h \in Hooks, e \in HookEvents, sigValid \in BOOLEAN :
       DeliverObserved(h, e, sigValid)
  \/ \E h, g \in Hooks : Redeliver(h, g)
  \/ \E h \in Hooks : CheckoutUpdate(h)
  \/ \E h \in Hooks : CheckoutAdd(h)
  \/ \E h \in Hooks : SubUpdatedRead(h)
  \/ \E h \in Hooks : SubUpdatedUpgrade(h)
  \/ \E h \in Hooks : SubUpdatedAdd(h)
  \/ \E h \in Hooks : SubUpdatedStatus(h)
  \/ \E h \in Hooks : SubDeleted(h)
  \/ \E h \in Hooks : InvoiceRead(h)
  \/ \E h \in Hooks : InvoiceAdd(h)

SpecHooks == InitHooks /\ [][NextHooks]_vars

\* deliveries g and h are two deliveries of one event, both answered 200, and
\* no other delivery concerns the event's account (hooks[h].redelivery says
\* that h arrived after an earlier delivery of its event had been answered 200)
OnlyDeliveries(g, h) ==
  /\ g # h
  /\ hooks[g].eid = hooks[h].eid
  /\ hooks[g].pc = "done" /\ hooks[g].status = 200
  /\ hooks[h].pc = "done" /\ hooks[h].status = 200
  /\ \A f \in Hooks \ {g, h} :
       hooks[f].pc = "idle" \/ hooks[f].ev.userId # hooks[h].ev.userId

\* delivery h was verified and answered while no other delivery was handled:
\* hooks[h].pre is the account before the event, users the accounts after it
Applied(h, type) ==
  /\ hooks[h].pc = "done" /\ hooks[h].sigValid
  /\ hooks[h].ev.type = type
  /\ \A g \in Hooks \ {h} : hooks[g].pc = "idle"

\* the monthly grant the Tier Catalog gives a paid tier
MonthlyGrant(tier) == IF tier = "tier1" THEN 200 ELSE 1000

\* C3: a checkout.session.completed event processed twice credits the tier's
\* grant once: the balance is the old balance plus one grant, the tier is the
\* event's tier.
C3_CheckoutOnce ==
  \A g, h \in Hooks :
    (OnlyDeliveries(g, h) /\ hooks[h].redelivery
       /\ hooks[h].ev.type = "checkout.session.completed"
       /\ hooks[h].ev.tier \in TierKeys)
    => LET e == hooks[h].ev
       IN /\ users[e.userId].subscription_tier = e.tier
          /\ users[e.userId].tokens
               = opening[e.userId] + SUBSCRIPTION_TIERS[e.tier].tokens

\* C4: an invoice.payment_succeeded event processed twice credits the monthly
\* allotment of the account's tier once.
C4_InvoiceOnce ==
  \A g, h \in Hooks :
    (OnlyDeliveries(g, h) /\ hooks[h].redelivery
       /\ hooks[h].ev.type = "invoice.payment_succeeded"
       /\ users[hooks[h].ev.userId].subscription_tier \in TierKeys)
    => LET u == hooks[h].ev.userId
       IN users[u].tokens
            = opening[u] + SUBSCRIPTION_TIERS[users[u].subscription_tier].tokens

\* C5: a tier-changing customer.subscription.updated event delivered twice
\* grants the new tier's allotment at most once, however the two handlers
\* interleave.
C5_UpdatedGrantsOnce ==
  \A g, h \in Hooks :
    (OnlyDeliveries(g, h) /\ hooks[h].ev.type = "customer.subscription.updated"
       /\ newTierOf(hooks[h].ev.priceId) # NULL)
    => LET e == hooks[h].ev
       IN users[e.userId].tokens
            <= opening[e.userId] + SUBSCRIPTION_TIERS[newTierOf(e.priceId)].tokens

\* C11: a checkout.session.completed event of a catalog tier applied to a free
\* account leaves the account on the event's tier, with the event's customer
\* and subscription as its external refs and with exactly that tier's monthly
\* grant (200 for tier1, 1000 for tier2) added to its balance.
C11_CheckoutApplied ==
  \A h \in Hooks :
    (Applied(h, "checkout.session.completed")
       /\ hooks[h].ev.tier \in TierKeys
       /\ hooks[h].pre.subscription_tier = "free")
    => LET e == hooks[h].ev
           row == users[e.userId]
       IN /\ hooks[h].status = 200
          /\ row.subscription_tier = e.tier
          /\ row.stripe_customer_id = e.customer
          /\ row.stripe_subscription_id = e.subscription
          /\ row.tokens = hooks[h].pre.tokens + MonthlyGrant(e.tier)

\* a free account with no external refs after a tier2 checkout
C11_Witness ==
  \E h \in Hooks :
    /\ Applied(h, "checkout.session.completed")
    /\ hooks[h].ev.tier = "tier2"
    /\ hooks[h].pre = FreeRow(MaxInitTokens, 0)
    /\ users[hooks[h].ev.userId].subscription_tier = "tier2"
    /\ users[hooks[h].ev.userId].stripe_subscription_id = hooks[h].ev.subscription
    /\ users[hooks[h].ev.userId].tokens = MaxInitTokens + Tier2Tokens

\* C12: a customer.subscription.updated event whose price is that of a catalog
\* tier other than the account's tier leaves the account on the resolved tier
\* with exactly that tier's grant added to its balance, for an upgrade and for
\* a downgrade alike.
C12_TierChangeApplied ==
  \A h \in Hooks :
    (Applied(h, "customer.subscription.updated")
       /\ newTierOf(hooks[h].ev.priceId) \in TierKeys
       /\ newTierOf(hooks[h].ev.priceId) # hooks[h].pre.subscription_tier)
    => LET e == hooks[h].ev
           row == users[e.userId]
       IN /\ hooks[h].status = 200
          /\ row.subscription_tier = newTierOf(e.priceId)
          /\ row.tokens = hooks[h].pre.tokens + MonthlyGrant(newTierOf(e.priceId))

\* a tier2 subscriber after the downgrade to tier1: 200 tokens more
C12_Witness ==
  \E h \in Hooks :
    /\ Applied(h, "customer.subscription.updated")
    /\ hooks[h].ev.priceId = "price_tier1"
    /\ hooks[h].pre.subscription_tier = "tier2"
    /\ users[hooks[h].ev.userId].subscription_tier = "tier1"
    /\ users[hooks[h].ev.userId].tokens = hooks[h].pre.tokens + 200

\* C13: a customer.subscription.updated event whose price is that of the
\* account's own tier changes the subscription status only: the balance and
\* the tier are what they were before the event.
C13_SameTierStatusOnly ==
  \A h \in Hooks :
    (Applied(h, "customer.subscription.updated")
       /\ hooks[h].pre.subscription_tier \in TierKeys
       /\ newTierOf(hooks[h].ev.priceId) = hooks[h].pre.subscription_tier)
    => LET e == hooks[h].ev
           row == users[e.userId]
       IN /\ hooks[h].status = 200
          /\ row.tokens = hooks[h].pre.tokens
          /\ row.subscription_tier = hooks[h].pre.subscription_tier
          /\ row.subscription_status = e.status

\* an active tier1 subscriber after an update of the same price that reports
\* the subscription past due
C13_Witness ==
  \E h \in Hooks :
    /\ Applied(h, "customer.subscription.updated")
    /\ hooks[h].ev.priceId = "price_tier1" /\ hooks[h].ev.status = "past_due"
    /\ hooks[h].pre = PaidRow(1, MaxInitTokens, "tier1", "active")
    /\ users[hooks[h].ev.userId] = PaidRow(1, MaxInitTokens, "tier1", "past_due")

\* C14: a customer.subscription.deleted event sets the subscription status to
\* canceled and clears the tier, and the balance is what it was.
C14_DeletedKeepsBalance ==
  \A h \in Hooks :
    Applied(h, "customer.subscription.deleted")
    => LET row == users[hooks[h].ev.userId]
       IN /\ hooks[h].status = 200
          /\ row.subscription_status = "canceled"
          /\ row.subscription_tier = NULL
          /\ row.tokens = hooks[h].pre.tokens

\* a tier2 subscriber with tokens left after the deletion of the subscription
C14_Witness ==
  \E h \in Hooks :
    /\ Applied(h, "customer.subscription.deleted")
    /\ hooks[h].pre = PaidRow(1, MaxInitTokens, "tier2", "active")
    /\ MaxInitTokens > 0
    /\ users[hooks[h].ev.userId].subscription_status = "canceled"
    /\ users[hooks[h].ev.userId].tokens = MaxInitTokens

\* C15: a customer.subscription.deleted event retains the external refs: the
\* account's customer ref and subscription ref are after the event what they
\* were before it.
C15_DeletedKeepsRefs ==
  \A h \in Hooks :
    (Applied(h, "customer.subscription.deleted")
       /\ hooks[h].pre.stripe_subscription_id # NULL)
    => LET row == users[hooks[h].ev.userId]
       IN /\ row.stripe_customer_id = hooks[h].pre.stripe_customer_id
          /\ row.stripe_subscription_id = hooks[h].pre.stripe_subscription_id

\* delivery h, of an event about the subscription whose deletion delivery g
\* applied to a subscriber, arrived after g was answered and has been answered
\* too; no other delivery was handled
LateAfterDeleted(g, h) ==
  /\ g # h
  /\ hooks[g].pc = "done" /\ hooks[g].sigValid /\ hooks[g].status = 200
  /\ hooks[g].ev.type = "customer.subscription.deleted"
  /\ hooks[g].pre.subscription_tier \in TierKeys
  /\ hooks[h].pc = "done" /\ hooks[h].sigValid
  /\ hooks[h].ev.subscription = hooks[g].ev.subscription
  /\ hooks[h].ev.type \in {"customer.subscription.updated", "invoice.payment_succeeded"}
  /\ hooks[h].pre.subscription_status = "canceled"
  /\ hooks[h].pre.subscription_tier = NULL
  /\ \A f \in Hooks \ {g, h} : hooks[f].pc = "idle"

\* C16: once a customer.subscription.deleted event has been applied, an update
\* or a paid invoice of that subscription delivered later credits nothing and
\* does not put the account back on a paid tier.
C16_NoGrantAfterDeleted ==
  \A g, h \in Hooks :
    LateAfterDeleted(g, h)
    => LET row == users[hooks[h].ev.userId]
       IN /\ row.tokens = hooks[h].pre.tokens
          /\ row.subscription_tier \notin TierKeys

\* C17: an invoice.payment_succeeded event applied to an account on a paid
\* tier adds exactly the monthly grant of the tier the account holds, and the
\* tier and the subscription status are what they were.
C17_InvoiceApplied ==
  \A h \in Hooks :
    (Applied(h, "invoice.payment_succeeded")
       /\ hooks[h].pre.subscription_tier \in TierKeys)
    => LET row == users[hooks[h].ev.userId]
       IN /\ hooks[h].status = 200
          /\ row.tokens = hooks[h].pre.tokens
                            + MonthlyGrant(hooks[h].pre.subscription_tier)
          /\ row.subscription_tier = hooks[h].pre.subscription_tier
          /\ row.subscription_status = hooks[h].pre.subscription_status

\* a tier2 subscriber after a paid invoice: 1000 tokens more
C17_Witness ==
  \E h \in Hooks :
    /\ Applied(h, "invoice.payment_succeeded")
    /\ hooks[h].pre = PaidRow(1, MaxInitTokens, "tier2", "active")
    /\ users[hooks[h].ev.userId] = PaidRow(1, MaxInitTokens + 1000, "tier2", "active")

\* C18: no step of a verified invoice.payment_failed delivery changes any
\* account: the delivery is answered at once and tokens, tier, external refs
\* and subscription status of every account stay as they are.
C18_PaymentFailedInert ==
  [][\A h \in Hooks :
       (hooks'[h] # hooks[h] /\ hooks'[h].sigValid
          /\ hooks'[h].ev.type = "invoice.payment_failed")
       => /\ users' = users
          /\ hooks'[h].pc = "done" /\ hooks'[h].status = 200]_vars

\* a failed payment of an active subscriber was acknowledged and the account
\* is as it was
C18_Witness ==
  \E h \in Hooks :
    /\ Applied(h, "invoice.payment_failed")
    /\ hooks[h].status = 200
    /\ hooks[h].pre.subscription_status = "active"
    /\ users[hooks[h].ev.userId] = hooks[h].pre

\* C9: a delivery whose signature does not verify is answered 400 at once and
\* no step of it changes any account.
C9_UnverifiedRejected ==
  [][\A h \in Hooks :
       (hooks'[h] # hooks[h] /\ ~hooks'[h].sigValid)
       => /\ users' = users
          /\ hooks'[h].pc = "done" /\ hooks'[h].status = 400]_vars

\* a forged checkout event for a free account was answered 400 and the account
\* is as it was
C9_Witness ==
  \E h \in Hooks :
    /\ hooks[h].pc = "done" /\ ~hooks[h].sigValid /\ hooks[h].status = 400
    /\ hooks[h].ev.type = "checkout.session.completed"
    /\ users[hooks[h].ev.userId] = FreeRow(opening[hooks[h].ev.userId], 0)

\* C31: the write of a status-only customer.subscription.updated (the price
\* resolves to the tier the handler read) leaves the tier of the account as
\* it is at that moment, other handlers having run since the read or not.
C31_StatusOnlyKeepsTier ==
  [][\A h \in Hooks :
       ( /\ hooks[h].pc = "su_status" /\ hooks'[h].pc = "done"
         /\ newTierOf(hooks[h].ev.priceId) = hooks[h].user_tier )
       => users'[hooks[h].ev.userId].subscription_tier
            = users[hooks[h].ev.userId].subscription_tier]_vars

\* C32: the handler of a verified checkout.session.completed whose tier is
\* not a key of SUBSCRIPTION_TIERS changes no account in any of its steps,
\* and the tier of every account is free, null or a key of SUBSCRIPTION_TIERS.
C32_UnknownTierRejected ==
  [][/\ \A h \in Hooks :
          ( /\ hooks[h].ev.type = "checkout.session.completed"
            /\ hooks[h].ev.tier \notin TierKeys
            /\ hooks[h].pc \notin {"idle", "done"}
            /\ hooks'[h] # hooks[h] )
          => users' = users
     /\ \A u \in Users :
          users'[u].subscription_tier \in TierKeys \cup {"free", NULL}]_vars

\* C33: a customer.subscription.updated event delivered again after its
\* first delivery was answered 200, no other event being handled, changes
\* neither the balance nor the tier: at every point of the second handler
\* they are what the first delivery left.
C33_UpdatedAgainNoOp ==
  \A g, h \in Hooks :
    ( /\ g # h /\ hooks[h].eid = hooks[g].eid
      /\ hooks[g].pc = "done" /\ hooks[g].status = 200
      /\ hooks[h].pc # "idle" /\ hooks[h].redelivery
      /\ hooks[h].ev.type = "customer.subscription.updated"
      /\ \A f \in Hooks \ {g, h} : hooks[f].pc = "idle" )
    => LET row == users[hooks[h].ev.userId]
       IN /\ row.tokens = hooks[h].pre.tokens
          /\ row.subscription_tier = hooks[h].pre.subscription_tier
          /\ hooks[h].credited = 0

\* the first delivery moved the account to tier2 and granted its tokens; the
\* second, handled afterwards, was answered 200 and granted nothing
C33_Witness ==
  \E g, h \in Hooks :
    /\ g # h /\ hooks[h].eid = hooks[g].eid /\ hooks[h].redelivery
    /\ hooks[h].ev.type = "customer.subscription.updated"
    /\ hooks[g].credited = Tier2Tokens
    /\ hooks[h].pc = "done" /\ hooks[h].status = 200 /\ hooks[h].credited = 0
    /\ users[hooks[h].ev.userId].subscription_tier = "tier2"
    /\ users[hooks[h].ev.userId].tokens = hooks[g].pre.tokens + Tier2Tokens

\* the events Stripe emits for one checkout of tier t by account u
PurchaseEvents(u, t) ==
  {e \in CheckoutEvents(u) : e.tier = t}
    \cup {e \in UpdatedEvents(u) : e.priceId = SUBSCRIPTION_TIERS[t].priceId
                                      /\ e.status = "active"}
    \cup {e \in OtherEvents(u) : e.type = "invoice.payment_succeeded"}

\* C34: the events of one checkout of a tier by a free account, each
\* delivered once, credit one monthly allotment of that tier in total: as no
\* handler takes tokens away, the credits of the deliveries made so far never
\* exceed one allotment, and they amount to it once the three are handled.
C34_OneAllotmentPerCheckout ==
  \A t \in TierKeys :
    LET delivered == {h \in Hooks : hooks[h].pc # "idle"}
    IN ( /\ delivered # {}
         /\ hooks[1].pre.subscription_tier = "free"
         /\ \A h \in delivered :
              /\ hooks[h].sigValid /\ hooks[h].eid = h
              /\ hooks[h].ev \in PurchaseEvents(1, t)
              /\ \A g \in delivered \ {h} : hooks[g].ev.type # hooks[h].ev.type )
       => /\ Credited(1) <= SUBSCRIPTION_TIERS[t].tokens
          /\ ( Cardinality(delivered) = 3 /\ \A h \in delivered : hooks[h].pc = "done" )
               => Credited(1) = SUBSCRIPTION_TIERS[t].tokens

\* C36: the handler of invoice.payment_succeeded that finds the account on
\* no paid tier (tier free or null) ends there, changing no account, and
\* answers 200.
C36_InvoiceWithoutTierAcked ==
  [][\A h \in Hooks :
       ( /\ hooks[h].pc = "ip_read" /\ hooks'[h].pc # "ip_read"
         /\ users[hooks[h].ev.userId].subscription_tier \in {"free", NULL} )
       => /\ users' = users
          /\ hooks'[h].pc = "done"
          /\ hooks'[h].status = 200]_vars

(* ------- a checkout redelivered until its handler answers 200 --------- *)
\* the catch block of the webhook that acknowledges the event all the same
onWebhookErrorAcked(h) == HookDone(h, 200)

\* the catch block of the webhook: 500 Webhook processing failed
onWebhookError(h) == HookDone(h, 500)

\* storage failures are transient: fewer deliveries fail than Stripe makes
MaxFailures == NumHooks - 1

Failures == Cardinality({h \in Hooks : hooks[h].pc = "done" /\ hooks[h].credited = 0})

\* updateUserSubscription rejects: nothing is written
CheckoutUpdateFail(h) ==
  /\ hooks[h].pc = "co_update"
  /\ Failures < MaxFailures
  /\ hooks' = [hooks EXCEPT ![h] = onWebhookError(h)]
  /\ UNCHANGED <<users, keys, usage, reqs, sweeps, now, lastRevoke, opening, admin, verifs, emails, schema>>

\* addTokensToUser rejects: the tier is written, the grant is not
CheckoutAddFail(h) ==
  /\ hooks[h].pc = "co_add"
  /\ Failures < MaxFailures
  /\ hooks' = [hooks EXCEPT ![h] = onWebhookError(h)]
  /\ UNCHANGED <<users, keys, usage, reqs, sweeps, now, lastRevoke, opening, admin, verifs, emails, schema>>

\* Stripe delivers again the event whose delivery g was answered with an
\* error, as long as no delivery of it was answered 200
RedeliverUnacked(h, g) ==
  /\ hooks[g].pc = "done" /\ hooks[g].status = 500
  /\ \A f \in Hooks : hooks[f].pc # "idle" => hooks[f].pc = "done" /\ hooks[f].status = 500
  /\ Accept(h, hooks[g].ev, hooks[g].eid, hooks[g].sigValid, IdleHook.pre)

InitRetry ==
  /\ users = [u \in Users |-> FreeRow(MaxInitTokens, 0)]
  /\ InitRest

\* a checkout of a catalog tier by account 1
RetryEvents == {e \in CheckoutEvents(1) : e.tier \in TierKeys}

\* what Stripe and the handlers do when nothing fails
RetryProgress ==
  \/ \E e \in RetryEvents : Deliver(1, e, TRUE)
  \/ \E h, g \in Hooks : RedeliverUnacked(h, g)
  \/ \E h \in Hooks : CheckoutUpdate(h)
  \/ \E h \in Hooks : CheckoutAdd(h)

NextRetry ==
  \/ RetryProgress
  \/ \E h \in Hooks : CheckoutUpdateFail(h)
  \/ \E h \in Hooks : CheckoutAddFail(h)
  \/ \E r \in Reqs : Authenticate(r, RawKey(1), TRUE)
  \/ \E r \in Reqs : Deduct(r)
  \/ \E r \in Reqs : DownstreamFail(r)

SpecRetry == InitRetry /\ [][NextRetry]_vars

\* the event loop runs every handler on, the storage answers, and Stripe
\* keeps its promise to redeliver
SpecRetryFair == SpecRetry /\ WF_vars(RetryProgress)

\* C38: once a checkout.session.completed of a catalog tier has been
\* delivered, and redelivered while its handler answers 500, the account
\* eventually has the event's tier and has been credited the tier's grant.
C38_CheckoutEventuallyCredited ==
  \A t \in TierKeys :
    (hooks[1].pc # "idle" /\ hooks[1].ev.tier = t)
      ~> ( /\ users[1].subscription_tier = t
           /\ Credited(1) >= SUBSCRIPTION_TIERS[t].tokens
           /\ users[1].tokens
                = opening[1] + Credited(1) - Cardinality(Debits(1)) )

\* the first delivery wrote the tier and failed at the credit (answered 500);
\* the redelivery ran to the end and credited the grant once
C38_Witness ==
  \E h \in Hooks :
    /\ h # 1
    /\ hooks[1].pc = "done" /\ hooks[1].status = 500 /\ hooks[1].credited = 0
    /\ hooks[h].eid = hooks[1].eid
    /\ hooks[h].pc = "done" /\ hooks[h].status = 200
    /\ users[1].subscription_tier = hooks[1].ev.tier
    /\ Credited(1) = SUBSCRIPTION_TIERS[hooks[1].ev.tier].tokens

(* ------------ the verification link of a new account ----------------- *)
\* account 1 registered today or yesterday and has not followed its link
InitVerify ==
  /\ users = [u \in Users |-> FreeRow(MaxInitTokens, 0)]
  /\ InitProcesses
  /\ emails \in {[u \in Users |-> IF u = 1 THEN PendingEmail(1, t) ELSE VerifiedEmail] :
                   t \in {0 - 1, 0}}
  /\ schema = SchemaReady

NextVerify ==
  \/ \E v \in Verifs, token \in {VerificationToken(1), VerificationToken(0), NoToken} :
       VerifyRead(v, token)
  \/ \E v \in Verifs : VerifyEmail(v)
  \/ \E v \in Verifs : VerifyAdd(v)
  \/ Tick
  \/ \E r \in 1..SweepReqs : Authenticate(r, RawKey(1), TRUE)
  \/ \E r \in Reqs : Deduct(r)
  \/ \E r \in Reqs : DownstreamFail(r)

SpecVerify == InitVerify /\ [][NextVerify]_vars

\* C39: the requests of the verification link of an account add the signup
\* grant of 20 tokens at most once, however they interleave: the balance
\* never exceeds the opening balance plus 20 minus the debits.
C39_SignupGrantOnce ==
  \A u \in Users :
    users[u].tokens <= opening[u] + SignupGrant - Cardinality(Debits(u))

(* ------------- requests of a subscriber whose status changes ---------- *)
InitStatus ==
  /\ users = [u \in Users |->
                IF u = 1 THEN PaidRow(1, MaxInitTokens, "tier1", "active")
                ELSE FreeRow(MaxInitTokens, 0)]
  /\ InitRest

\* the subscription of account 1 becomes past due, or is deleted
StatusEvents ==
  {e \in UpdatedEvents(1) : e.priceId = "price_tier1" /\ e.status = "past_due"}
    \cup {e \in OtherEvents(1) : e.type = "customer.subscription.deleted"}

NextStatus ==
  \/ \E h \in Hooks, e \in StatusEvents : Deliver(h, e, TRUE)
  \/ \E h \in Hooks : SubUpdatedRead(h)
  \/ \E h \in Hooks : SubUpdatedStatus(h)
  \/ \E h \in Hooks : SubDeleted(h)
  \/ \E r \in Reqs : Authenticate(r, RawKey(1), TRUE)
  \/ \E r \in Reqs : Deduct(r)
  \/ \E r \in Reqs : DownstreamOk(r)
  \/ \E r \in Reqs : DownstreamFail(r)
  \/ \E r \in Reqs : UpdateLastUsed(r)
  \/ \E r \in Reqs : LogUsage(r)

SpecStatus == InitStatus /\ [][NextStatus]_vars

\* C35: whatever the subscription status and the tier of the account, a
\* request presenting an active credential of an account whose balance is
\* > 0 passes authentication, and its debit, attempted while the balance is
\* > 0, takes exactly one token and lets it go on to the backend.
C35_StatusNeverBlocks ==
  [][\A r \in Reqs :
       /\ ( /\ reqs[r].pc = "idle" /\ reqs'[r].pc # "idle"
            /\ \E k \in KeyIds : /\ reqs'[r].apiKey = RawKey(k)
                                  /\ keys[k].is_active = 1
                                  /\ users[keys[k].user_id].tokens > 0 )
            => /\ reqs'[r].pc = "authed"
               /\ reqs'[r].warning
                    = (users[reqs'[r].user_id].subscription_status
                         \in {"canceled", "past_due"})
       /\ ( /\ reqs[r].pc = "authed" /\ reqs'[r].pc # "authed" /\ reqs[r].image
            /\ users[reqs[r].user_id].tokens > 0 )
            => /\ reqs'[r].pc = "calling" /\ reqs'[r].debited
               /\ users' = [users EXCEPT ![reqs[r].user_id].tokens = @ - 1]]_vars

\* the subscription was deleted (status canceled, tier cleared); a request
\* made afterwards carried the warning, was debited and got its image
C35_Witness ==
  \E r \in Reqs :
    /\ users[1].subscription_status = "canceled"
    /\ users[1].subscription_tier = NULL
    /\ reqs[r].warning /\ reqs[r].debited
    /\ reqs[r].pc = "done" /\ reqs[r].status = 200
    /\ users[1].tokens = opening[1] - Cardinality(Debits(1))

(* --------------- tier upgrades racing with the renewal sweep ----------- *)
\* free accounts whose last reset is 30 days old when the process starts
InitRace ==
  /\ users = [u \in Users |-> FreeRow(MaxInitTokens, 0 - RenewalDays)]
  /\ InitRest

\* the events that move account 1 to a tier of the catalog
UpgradeEvents ==
  {e \in CheckoutEvents(1) \cup UpdatedEvents(1) :
     /\ e.status = "active"
     /\ e.tier = "tier1" \/ newTierOf(e.priceId) = "tier2"}

NextRace ==
  \/ \E h \in Hooks, e \in UpgradeEvents : Deliver(h, e, TRUE)
  \/ \E h \in Hooks : CheckoutUpdate(h)
  \/ \E h \in Hooks : CheckoutAdd(h)
  \/ \E h \in Hooks : SubUpdatedRead(h)
  \/ \E h \in Hooks : SubUpdatedUpgrade(h)
  \/ \E h \in Hooks : SubUpdatedAdd(h)
  \/ \E h \in Hooks : SubUpdatedStatus(h)
  \/ \E s \in Sweeps : SweepSelect(s)
  \/ \E s \in Sweeps : SweepReset(s)

SpecRace == InitRace /\ [][NextRace]_vars

\* the tier a delivered event moves its account to
EventTier(e) ==
  IF e.type = "checkout.session.completed" THEN e.tier ELSE newTierOf(e.priceId)

\* C6: once a tier-upgrade event has been applied to an account (and no other
\* event concerns it), the account has the paid tier and its balance holds
\* the full grant on top of either its old balance or the free baseline,
\* whatever the renewal sweeps did and do; and no step lowers the balance of
\* an account that has a paid tier.
C6_UpgradeSurvivesSweep ==
  [][/\ \A h \in Hooks :
          ( /\ hooks'[h].pc = "done" /\ hooks'[h].credited > 0
            /\ \A f \in Hooks \ {h} :
                 hooks'[f].pc = "idle" \/ hooks'[f].ev.userId # hooks'[h].ev.userId )
          => LET e == hooks'[h].ev
                 grant == SUBSCRIPTION_TIERS[EventTier(e)].tokens
             IN /\ users'[e.userId].subscription_tier = EventTier(e)
                /\ users'[e.userId].tokens
                     \in {opening[e.userId] + grant, BaselineGrant + grant}
     /\ \A u \in Users :
          users[u].subscription_tier \in TierKeys
          => users'[u].tokens >= users[u].tokens]_vars

\* a sweep selected the account while it was free, the checkout's tier update
\* came before the sweep's reset, and the finished sweep left the paid
\* account's balance (old balance + grant) and last reset alone
C6_Witness ==
  \E h \in Hooks, s \in Sweeps :
    LET e == hooks[h].ev
    IN /\ hooks[h].pc = "done" /\ hooks[h].credited > 0
       /\ sweeps[s].pc = "done"
       /\ \E i \in 1..Len(sweeps[s].selected) : sweeps[s].selected[i] = e.userId
       /\ users[e.userId].subscription_tier = EventTier(e)
       /\ users[e.userId].last_token_reset + RenewalDays <= now
       /\ users[e.userId].tokens
            = opening[e.userId] + SUBSCRIPTION_TIERS[EventTier(e)].tokens

\* C30: the count a sweep reports is the number of rows it reset: each
\* iteration of its loop adds to the count the number of rows its conditional
\* reset affected, 0 for an account that left the free tier after it was
\* selected.
C30_CountIsRowsReset ==
  [][\A s \in Sweeps :
       (sweeps[s].pc = "loop" /\ sweeps'[s] # sweeps[s])
       => sweeps'[s].successCount
            = sweeps[s].successCount
                + resetUserTokens(users, Head(sweeps[s].todo), now).rowsAffected]_vars

(* --------------- the renewal sweep on free accounts of any age --------- *)
\* the days since the last reset of account 1 when the process starts: around
\* the renewal period, and one day
SweepAges == {RenewalDays + 1, RenewalDays, RenewalDays - 1, 1}

\* Account 1 is a free account with a balance below or above the baseline;
\* account 2 is a free one whose renewal is due or that was reset today, as
\* the remaining accounts were.
InitSweep ==
  /\ users \in [Users -> {FreeRow(n, 0 - d) :
                             n \in {0, MaxInitTokens, BaselineGrant + MaxInitTokens},
                             d \in SweepAges \cup {0}}]
  /\ users[1].last_token_reset < 0
  /\ users[2] \in {FreeRow(MaxInitTokens, 0 - RenewalDays), FreeRow(MaxInitTokens, 0)}
  /\ \A u \in Users \ {1, 2} : users[u] = FreeRow(MaxInitTokens, 0)
  /\ InitRest

NextSweep ==
  \/ \E s \in Sweeps : SweepSelect(s)
  \/ \E s \in Sweeps : SweepReset(s)
  \/ Tick
  \/ \E r \in 1..SweepReqs : Authenticate(r, RawKey(1), TRUE)
  \/ \E r \in Reqs : Deduct(r)
  \/ \E r \in Reqs : DownstreamFail(r)

SpecSweep == InitSweep /\ [][NextSweep]_vars

\* the accounts a sweep has to renew at time t: free, last reset at least the
\* renewal period ago
Due(us, t) ==
  {u \in Users : us[u].subscription_tier = "free"
                   /\ t - us[u].last_token_reset >= 30}

\* C19: a sweep run selects exactly the free accounts whose last reset is at
\* least 30 days old; each reset of its loop sets the balance of the selected
\* account to 20, whatever it was, and its last reset to now, and touches no
\* other account, so that a free account reset less than 30 days ago is left
\* as it is.
C19_SweepResetsDue ==
  [][\A s \in Sweeps :
       /\ (sweeps[s].pc = "idle" /\ sweeps'[s].pc # "idle")
            => /\ {sweeps'[s].selected[i] : i \in 1..Len(sweeps'[s].selected)}
                    = Due(users, now)
               /\ users' = users
       /\ (sweeps[s].pc = "loop" /\ sweeps'[s] # sweeps[s])
            => LET u == Head(sweeps[s].todo)
               IN /\ \E i \in 1..Len(sweeps[s].selected) : sweeps[s].selected[i] = u
                  /\ users'[u].tokens = 20
                  /\ users'[u].last_token_reset = now
                  /\ \A v \in Users \ {u} : users'[v] = users[v]]_vars

\* a finished sweep run has reset account 1, last reset 30 days or more before
\* and holding more than the baseline, and has left alone another account
\* that was reset on the day the process started
C19_Witness ==
  \E s \in Sweeps, v \in Users \ {1} :
    /\ sweeps[s].pc = "done" /\ sweeps[s].selected = <<1>>
    /\ opening[1] > BaselineGrant
    /\ users[1] = FreeRow(BaselineGrant, now)
    /\ users[v] = FreeRow(MaxInitTokens, 0)
    /\ \A r \in Reqs : reqs[r].pc = "idle"

\* C20: overlapping sweep runs reset an account at most once per renewal
\* period: no step of a sweep changes the balance of a free account whose last
\* reset is less than 30 days old, so what the account spent since that reset
\* is not given back.
C20_ResetOncePerPeriod ==
  [][\A u \in Users :
       (sweeps' # sweeps /\ users[u].subscription_tier = "free"
          /\ now - users[u].last_token_reset < 30)
       => users'[u].tokens = users[u].tokens]_vars

(* ------------- the renewal sweep on a subscriber that cancels ---------- *)
\* Account 1 subscribed to tier1 and was last reset a renewal period ago; the
\* other accounts are free ones whose renewal is due.
InitLapsed ==
  /\ users = [u \in Users |->
                IF u = 1 THEN [PaidRow(1, MaxInitTokens, "tier1", "active")
                                 EXCEPT !.last_token_reset = 0 - RenewalDays]
                ELSE FreeRow(MaxInitTokens, 0 - RenewalDays)]
  /\ InitRest

\* the deletion of account 1's subscription
LapsedEvents ==
  {e \in OtherEvents(1) : e.type = "customer.subscription.deleted"}

NextLapsed ==
  \/ \E h \in Hooks, e \in LapsedEvents : Deliver(h, e, TRUE)
  \/ \E h \in Hooks : SubDeleted(h)
  \/ \E s \in Sweeps : SweepSelect(s)
  \/ \E s \in Sweeps : SweepReset(s)
  \/ Tick
  \/ \E r \in 1..SweepReqs : Authenticate(r, RawKey(1), TRUE)
  \/ \E r \in Reqs : Deduct(r)
  \/ \E r \in Reqs : DownstreamFail(r)

SpecLapsed == InitLapsed /\ [][NextLapsed]_vars

\* C21: an account without a tier counts as a free one for the renewal: a
\* sweep that starts when the account's last reset is at least 30 days old
\* selects it (and so resets it to the baseline).
C21_NullTierRenewed ==
  [][\A s \in Sweeps :
       (sweeps[s].pc = "idle" /\ sweeps'[s].pc # "idle")
       => \A u \in Users :
            (users[u].subscription_tier \in {"free", NULL}
               /\ now - users[u].last_token_reset >= 30)
            => \E i \in 1..Len(sweeps'[s].selected) : sweeps'[s].selected[i] = u]_vars

(* ----------------- the scheduler that invokes the sweep --------------- *)
\* the scheduler has been started: its first sweep has been invoked
Started == sweeps[1].pc # "idle"

\* startTokenRenewalScheduler: call checkAndResetTokens at once and arm the
\* 24-hour interval
startTokenRenewalScheduler ==
  /\ ~Started
  /\ sweeps' = [sweeps EXCEPT ![1].pc = "invoked"]
  /\ UNCHANGED <<users, keys, usage, reqs, hooks, now, lastRevoke, opening, admin, verifs, emails, schema>>

\* an interval that is armed again only when the sweep before has finished
intervalArmedAfterSweep(n) == sweeps[n].pc = "done"

\* the interval armed by setInterval stays armed whatever the earlier sweeps
\* are doing
intervalArmed(n) == TRUE

\* 24 hours pass and the interval callback calls checkAndResetTokens
IntervalFires ==
  /\ Started
  /\ now < MaxDay
  /\ now' = now + 1
  /\ sweeps' = IF now + 2 \in Sweeps /\ intervalArmed(now + 1)
                 THEN [sweeps EXCEPT ![now + 2].pc = "invoked"]
                 ELSE sweeps
  /\ UNCHANGED <<users, keys, usage, reqs, hooks, lastRevoke, opening, admin, verifs, emails, schema>>

\* checkAndResetTokens, once called, up to the loop
checkAndResetTokens(s) ==
  /\ sweeps[s].pc = "invoked"
  /\ LET selected == getUsersNeedingTokenReset(users, now)
     IN sweeps' = [sweeps EXCEPT ![s] =
          [@ EXCEPT !.selected = selected, !.todo = selected,
                    !.pc = IF Len(selected) = 0 THEN "done" ELSE "loop"]]
  /\ UNCHANGED <<users, keys, usage, reqs, hooks, now, lastRevoke, opening, admin, verifs, emails, schema>>

\* account 1 is due when the process starts, account 2 a day later
InitScheduler ==
  /\ users = [u \in Users |->
                FreeRow(MaxInitTokens, IF u = 1 THEN 0 - RenewalDays
                                       ELSE 1 - RenewalDays)]
  /\ InitRest

NextScheduler ==
  \/ startTokenRenewalScheduler
  \/ IntervalFires
  \/ \E s \in Sweeps : checkAndResetTokens(s)
  \/ \E s \in Sweeps : SweepReset(s)
  \/ \E r \in 1..SweepReqs : Started /\ Authenticate(r, RawKey(1), TRUE)
  \/ \E r \in Reqs : Deduct(r)
  \/ \E r \in Reqs : DownstreamFail(r)

SpecScheduler == InitScheduler /\ [][NextScheduler]_vars

UsersTableExists == ~schema.fresh \/ schema.done >= 1

\* one more statement of initializeDatabase has completed.  The server calls
\* it without awaiting it and starts the scheduler in the same turn, before
\* any statement can complete.
initializeDatabase ==
  /\ Started
  /\ schema.done < SchemaStatements
  /\ schema' = [schema EXCEPT !.done = @ + 1]
  /\ UNCHANGED <<users, keys, usage, reqs, hooks, sweeps, now, lastRevoke, opening,
                 admin, verifs, emails>>

\* the SELECT of the sweep rejects (no such table: users): the catch of
\* checkAndResetTokens logs the error and the sweep is over
ScanThrows(s) ==
  /\ sweeps[s].pc = "invoked"
  /\ sweeps' = [sweeps EXCEPT ![s].pc = "done"]
  /\ UNCHANGED <<users, keys, usage, reqs, hooks, now, lastRevoke, opening,
                 admin, verifs, emails, schema>>

\* the account scan of an invoked sweep, whatever initializeDatabase has done
StartupScan(s) ==
  \/ UsersTableExists /\ checkAndResetTokens(s)
  \/ ~UsersTableExists /\ ScanThrows(s)

\* the server starts on a database that has the tables, with account 1 due
\* for renewal, or on a new one, whose accounts are those that register once
\* the table is there
InitStartup ==
  /\ schema \in {[fresh |-> f, done |-> 0] : f \in BOOLEAN}
  /\ users = [u \in Users |->
                FreeRow(MaxInitTokens, IF u = 1 /\ ~schema.fresh THEN 0 - RenewalDays
                                       ELSE 0)]
  /\ emails = [u \in Users |-> VerifiedEmail]
  /\ InitProcesses

NextStartup ==
  \/ startTokenRenewalScheduler
  \/ initializeDatabase
  \/ IntervalFires
  \/ \E s \in Sweeps : StartupScan(s)
  \/ \E s \in Sweeps : SweepReset(s)

SpecStartup == InitStartup /\ [][NextStartup]_vars

\* C40: the sweep invoked at process start executes its account scan only
\* when every statement of initializeDatabase has completed, and the scan
\* then selects the accounts that are due: it is not lost.
C40_StartupScanAfterInit ==
  [][(sweeps[1].pc = "invoked" /\ sweeps'[1].pc # "invoked")
       => /\ schema.done = SchemaStatements
          /\ sweeps'[1].selected = getUsersNeedingTokenReset(users, now)
          /\ sweeps'[1].pc = IF Len(sweeps'[1].selected) = 0 THEN "done" ELSE "loop"]_vars

(* ------- the add-tokens script beside requests and webhook credits ----- *)
InitAdmin ==
  /\ users = [u \in Users |-> FreeRow(MaxInitTokens, 0)]
  /\ InitRest

\* a checkout of tier1 by account 1
AdminEvents == {e \in CheckoutEvents(1) : e.tier = "tier1"}

NextAdmin ==
  \/ \E a \in AdminRuns : AdminRead(a)
  \/ \E a \in AdminRuns : AdminWrite(a)
  \/ \E r \in Reqs : Authenticate(r, RawKey(1), TRUE)
  \/ \E r \in Reqs : Deduct(r)
  \/ \E r \in Reqs : DownstreamFail(r)
  \/ \E h \in 1..LedgerHooks, e \in AdminEvents : Deliver(h, e, TRUE)
  \/ \E h \in Hooks : CheckoutUpdate(h)
  \/ \E h \in Hooks : CheckoutAdd(h)

SpecAdmin == InitAdmin /\ [][NextAdmin]_vars

\* the tokens the finished runs of the script added to account 1
Added == TokensToAdd * Cardinality({a \in AdminRuns : admin[a].pc = "done"})

\* C25: no update is lost when the add-tokens script runs beside request
\* debits and webhook credits: the balance of its account is the opening
\* balance plus every amount added or credited minus one per debited request.
C25_AdminAddLosesNothing ==
  users[1].tokens
    = opening[1] + Added
        + Credited(1) - Cardinality(Debits(1))

(* ------ the ledger under requests, webhooks and sweeps all at once ----- *)
\* Account 1, with one token left, is the one the requests, the events and
\* the sweeps are about: a free account whose renewal is due, or a tier1
\* subscriber; the other accounts were reset today.  The requests present
\* credential 1, and their backend call fails: what follows a backend's answer
\* does not touch the accounts.
InitLedger ==
  /\ users \in [Users -> {FreeRow(1, 0 - RenewalDays), FreeRow(MaxInitTokens, 0),
                           PaidRow(1, 1, "tier1", "active")}]
  /\ users[1].tokens = 1
  /\ \A u \in Users \ {1} : users[u] = FreeRow(MaxInitTokens, 0)
  /\ InitRest

\* a checkout of tier1, the subscription's deletion and a paid invoice
LedgerEvents ==
  {e \in CheckoutEvents(1) \cup OtherEvents(1) :
     /\ e.tier \in {"tier1", NULL}
     /\ e.type # "invoice.payment_failed"}

NextLedger ==
  \/ \E r \in Reqs : Authenticate(r, RawKey(1), TRUE)
  \/ \E r \in Reqs : Deduct(r)
  \/ \E r \in Reqs : DownstreamFail(r)
  \/ \E h \in 1..LedgerHooks, e \in LedgerEvents : Deliver(h, e, TRUE)
  \/ \E h \in Hooks : CheckoutUpdate(h)
  \/ \E h \in Hooks : CheckoutAdd(h)
  \/ \E h \in Hooks : SubDeleted(h)
  \/ \E h \in Hooks : InvoiceRead(h)
  \/ \E h \in Hooks : InvoiceAdd(h)
  \/ \E s \in 1..LedgerSweeps : SweepSelect(s)
  \/ \E s \in Sweeps : SweepReset(s)

Spec == InitLedger /\ [][NextLedger]_vars

\* C24: as long as no sweep has reset anything, the balance of every account
\* is its opening balance plus what the webhook handlers credited minus one
\* per debited request, however credits and debits interleave.
C24_CreditsDebitsCommute ==
  (\A s \in Sweeps : sweeps[s].successCount = 0)
  => \A u \in Users :
       users[u].tokens = opening[u] + Credited(u) - Cardinality(Debits(u))

\* a request that resolved its credential before a checkout's credit and was
\* debited after it, with no reset: the one-token account holds 200
C24_Witness ==
  \E h \in Hooks, r \in Reqs :
    /\ \A s \in Sweeps : sweeps[s].successCount = 0
    /\ hooks[h].pc = "done" /\ hooks[h].credited = Tier1Tokens
    /\ hooks[h].ev.userId = 1
    /\ reqs[r].debited /\ reqs[r].tokens = 1 /\ Debits(1) = {r}
    /\ users[1].tokens = Tier1Tokens

\* C2: every account's balance is an integer >= 0 in every reachable state.
C2_TokensNonNegative ==
  \A u \in Users : users[u].tokens \in Nat

\* an account that a request has debited to zero, where a second request's
\* debit then found nothing to take, and that a sweep has since reset and a
\* handled event has credited
C2_Witness ==
  \E u \in Users, h \in Hooks, s \in Sweeps, r \in Reqs :
    /\ hooks[h].pc = "done" /\ hooks[h].credited > 0 /\ hooks[h].ev.userId = u
    /\ sweeps[s].pc = "done" /\ users[u].last_token_reset = now
    /\ Debits(u) # {}
    /\ reqs[r].user_id = u /\ reqs[r].status = 402 /\ reqs[r].tokens > 0

====
